---- MODULE Spec2Model ----
(***************************************************************************)
(* A model of the tetherion proof-of-work node: Block (mining, difficulty  *)
(* check), Tetherion (the chain, add_block, is_valid), the fork choice     *)
(* is_better_than and the floodsub event handlers of TetherionBehaviour.   *)
(*                                                                         *)
(* Strings are sequences of character codes.  The codes 0..15 are the hex  *)
(* digits '0'..'9','a'..'f' (so the decimal digit d has code d); the codes *)
(* 16.. are other characters: 16 'g', 17 'i', 18 'n', 19 's', 20 '-',      *)
(* 21 ' ', 22 'h', 23 'l', 24 'o'.                                         *)
(***************************************************************************)
EXTENDS Integers, Sequences, FiniteSets, TLC

VARIABLES
    tetherion,       \* TetherionBehaviour.tetherion: [blocks, difficulty]
    status,          \* "running", "panicked" (a panic! unwound main) or "hung"
    inbox,           \* the floodsub message the swarm is about to hand over
    response_queue,  \* the mpsc channel behind response_sender
    published,       \* what the node handed to floodsub.publish, in order
    last,            \* the operation taken last, its input and its result
    blk,             \* the Block that Block::mine is working on
    mine_difficulty, \* the difficulty argument of the mine call in progress
    pc,              \* position inside Block::new / Block::mine
    mined,           \* copy of blk as its first mine call left it
    discovered,      \* mdns.discovered_nodes(), in the order of discovery
    init_pending,    \* the Init event is still in init_rcv
    nodes,           \* two nodes side by side: the state of each
    network          \* two nodes side by side: floodsub messages under way

vars == <<tetherion, status, inbox, response_queue, published,
          last, blk, mine_difficulty, pc, mined,
          discovered, init_pending, nodes, network>>

node_vars == <<tetherion, status, inbox, response_queue, published, last>>
mine_vars == <<blk, mine_difficulty, pc, mined>>
peer_vars == <<discovered, init_pending>>
net_vars == <<nodes, network>>

----------------------------------------------------------------------------
(* Bounds of the model. *)

\* Width of the nonce counter in bits (u64 in the source).
NonceBits == 3

\* Number of bytes of a digest (32 for SHA-256).
DigestBytes == 2

\* Longest chain the model lets a node or a message hold.
MaxLen == 3

\* Most messages the model lets a node queue and publish in one run.
MaxSent == 2

\* Most blocks the model lets two nodes side by side mine together.
MaxMined == 2

RECURSIVE Pow(_, _)
Pow(b, e) == IF e = 0 THEN 1 ELSE b * Pow(b, e - 1)

MaxNonce == Pow(2, NonceBits) - 1

Difficulties == 0 .. (DigestBytes + 1)

\* What the clock may show when the genesis block is made, and when a later
\* block is.
Times == {1, 2}
LaterTimes == {2}

\* Payloads of mined blocks: "" and " hello"
Payloads == { <<>>, <<21, 22, 14, 23, 23, 24>> }

\* What the operator types after "create b": " hello"
CommandPayloads == { <<21, 22, 14, 23, 23, 24>> }

----------------------------------------------------------------------------
(* Strings and the digest. *)

\* const HEX_SIZE: usize = 2
HEX_SIZE == 2

\* "genesis"
GENESIS == <<16, 14, 18, 14, 19, 17, 19>>

\* u64::to_string / i64::to_string: the decimal digits, '-' first if negative
RECURSIVE to_string(_)
to_string(n) ==
    IF n < 0 THEN <<20>> \o to_string(-n)
    ELSE IF n < 10 THEN <<n>>
    ELSE to_string(n \div 10) \o <<n % 10>>

\* "0".repeat(n)
repeat0(n) == [i \in 1 .. n |-> 0]

\* str::starts_with
starts_with(s, pattern) ==
    /\ Len(pattern) <= Len(s)
    /\ \A i \in 1 .. Len(pattern) : s[i] = pattern[i]

\* Block::hash_data: id, previous_hash, timestamp, nonce, data, in this order
hash_data(b) ==
    to_string(b.id) \o b.previous_hash \o to_string(b.timestamp)
        \o to_string(b.nonce) \o b.data

\* The state of the digest after absorbing the bytes s.
RECURSIVE Absorb(_, _)
Absorb(h, s) ==
    IF s = <<>> THEN h ELSE Absorb((h * 31 + Head(s) + 1) % 251, Tail(s))

\* Block::hash: a deterministic digest of DigestBytes bytes.  SHA-256 is
\* replaced by a small mixing function with the same interface; each byte
\* takes one of the values 0x00, 0x55, 0xaa, 0xff.
Sha256(data) ==
    LET h == Absorb(7, data)
    IN  [i \in 1 .. DigestBytes |-> ((h \div Pow(4, i - 1)) % 4) * 85]

\* hex::encode: two hex digits per byte, high nibble first
hex_encode(bytes) ==
    [k \in 1 .. 2 * Len(bytes) |->
        IF k % 2 = 1 THEN bytes[(k + 1) \div 2] \div 16
                     ELSE bytes[k \div 2] % 16]

\* hex::encode(Block::hash(self.hash_data().as_bytes()))
Digest(b) == hex_encode(Sha256(hash_data(b)))

----------------------------------------------------------------------------
(* Block *)

\* Block::is_valid
Block_is_valid(b, difficulty) ==
    starts_with(b.hash, repeat0(difficulty * HEX_SIZE))

\* The fields Block::new sets before it calls mine.
Block_fresh(id, previous_hash, data, now) ==
    [id |-> id, hash |-> <<>>, previous_hash |-> previous_hash,
     timestamp |-> now, nonce |-> 0, data |-> data]

\* mine_pass with the nonce stepped before the hash is looked at.
mine_pass_IncrementFirst(b, difficulty, debug) ==
    LET h == [b EXCEPT !.hash = Digest(b)]
        n == [h EXCEPT !.nonce = (@ + 1) % (MaxNonce + 1)]
    IN  IF Block_is_valid(h, difficulty) THEN [at |-> "done", block |-> n]
        ELSE IF h.nonce < MaxNonce THEN [at |-> "loop", block |-> n]
        ELSE IF debug THEN [at |-> "panicked", block |-> h]
        ELSE [at |-> "loop", block |-> n]

\* One pass of the loop of Block::mine: set the hash; break if it is valid,
\* else try the next nonce.  self.nonce += 1 at the largest nonce panics
\* in a debug build and wraps to 0 in a release build.
mine_pass(b, difficulty, debug) ==
    LET h == [b EXCEPT !.hash = Digest(b)]
    IN  IF Block_is_valid(h, difficulty) THEN [at |-> "done", block |-> h]
        ELSE IF h.nonce < MaxNonce
             THEN [at |-> "loop", block |-> [h EXCEPT !.nonce = @ + 1]]
        ELSE IF debug THEN [at |-> "panicked", block |-> h]
        ELSE [at |-> "loop", block |-> [h EXCEPT !.nonce = 0]]

\* The loop of Block::mine run to its end from block b, with `left` passes
\* to go before the nonce has taken every value once: the deterministic
\* search then repeats itself for ever ("hung").
RECURSIVE mine_loop(_, _, _, _)
mine_loop(b, difficulty, debug, left) ==
    LET r == mine_pass(b, difficulty, debug)
    IN  IF r.at # "loop" THEN r
        ELSE IF left = 0 THEN [at |-> "hung", block |-> r.block]
        ELSE mine_loop(r.block, difficulty, debug, left - 1)

\* Block::mine as one call: "panicked" at once if the nonce is not 0.
Block_mine(b, difficulty, debug) ==
    IF b.nonce # 0 THEN [at |-> "panicked", block |-> b]
    ELSE mine_loop(b, difficulty, debug, MaxNonce)

\* Block::new with the payload stored after mining.
Block_new_DataAfter(id, previous_hash, data, difficulty, now, debug) ==
    LET m == Block_mine(Block_fresh(id, previous_hash, <<>>, now), difficulty, debug)
    IN  [m EXCEPT !.block.data = data]

\* Block::new
Block_new(id, previous_hash, data, difficulty, now, debug) ==
    Block_mine(Block_fresh(id, previous_hash, data, now), difficulty, debug)

\* Block::genesis
Block_genesis(data, difficulty, now, debug) ==
    Block_new(0, GENESIS, data, difficulty, now, debug)

----------------------------------------------------------------------------
(* Tetherion *)

Ok == [kind |-> "Ok"]

\* is_valid_block with the checks in another order: previous hash,
\* difficulty, id.
is_valid_block_HashFirst(previous_block, block, difficulty) ==
    IF block.previous_hash # previous_block.hash
    THEN [kind |-> "InvalidPreviousHash", id |-> block.id]
    ELSE IF ~Block_is_valid(block, difficulty)
    THEN [kind |-> "InvalidDifficulty", id |-> block.id,
          difficulty |-> difficulty]
    ELSE IF block.id # previous_block.id + 1
    THEN [kind |-> "InvalidBlockId", id |-> block.id,
          previous_id |-> previous_block.id]
    ELSE Ok

\* is_valid_block without the previous-hash check.
is_valid_block_NoLink(previous_block, block, difficulty) ==
    IF block.id # previous_block.id + 1
    THEN [kind |-> "InvalidBlockId", id |-> block.id,
          previous_id |-> previous_block.id]
    ELSE IF ~Block_is_valid(block, difficulty)
    THEN [kind |-> "InvalidDifficulty", id |-> block.id,
          difficulty |-> difficulty]
    ELSE Ok

\* Tetherion::is_valid_block
is_valid_block(previous_block, block, difficulty) ==
    IF block.id # previous_block.id + 1
    THEN [kind |-> "InvalidBlockId", id |-> block.id,
          previous_id |-> previous_block.id]
    ELSE IF block.previous_hash # previous_block.hash
    THEN [kind |-> "InvalidPreviousHash", id |-> block.id]
    ELSE IF ~Block_is_valid(block, difficulty)
    THEN [kind |-> "InvalidDifficulty", id |-> block.id,
          difficulty |-> difficulty]
    ELSE Ok

\* add_block that pushes the block before it looks at the result.
add_block_PushFirst(t, block) ==
    LET previous_block == t.blocks[Len(t.blocks)]
    IN  [result |-> is_valid_block(previous_block, block, t.difficulty),
         tetherion |-> [t EXCEPT !.blocks = Append(@, block)]]

\* add_block that puts the block in the place of the last block.
add_block_ReplaceLast(t, block) ==
    LET previous_block == t.blocks[Len(t.blocks)]
        r == is_valid_block(previous_block, block, t.difficulty)
    IN  IF r = Ok
        THEN [result |-> Ok,
              tetherion |-> [t EXCEPT !.blocks =
                                Append(SubSeq(@, 1, Len(@) - 1), block)]]
        ELSE [result |-> r, tetherion |-> t]

\* Tetherion::add_block: the result and the chain after the call
add_block(t, block) ==
    LET previous_block == t.blocks[Len(t.blocks)]
        r == is_valid_block(previous_block, block, t.difficulty)
    IN  IF r = Ok
        THEN [result |-> Ok,
              tetherion |-> [t EXCEPT !.blocks = Append(@, block)]]
        ELSE [result |-> r, tetherion |-> t]

\* Tetherion::is_valid: the first violation from index 1 on, or Ok.  The
\* debug_assert! on an empty chain is a panic in a debug build only.
Tetherion_is_valid(t, debug) ==
    IF debug /\ Len(t.blocks) < 1 THEN [kind |-> "Panic"]
    ELSE
    LET bad == {i \in 2 .. Len(t.blocks) :
                   is_valid_block(t.blocks[i - 1], t.blocks[i], t.difficulty) # Ok}
    IN  IF bad = {} THEN Ok
        ELSE LET i == CHOOSE j \in bad : \A k \in bad : j <= k
             IN  is_valid_block(t.blocks[i - 1], t.blocks[i], t.difficulty)

\* Tetherion::creation_timestamp (called on non-empty chains only)
creation_timestamp(t) == t.blocks[1].timestamp

\* Tetherion::new: the chain, when mining the genesis block ends
Tetherion_new(genesis_data, difficulty, now, debug) ==
    [blocks |-> <<Block_genesis(genesis_data, difficulty, now, debug).block>>,
     difficulty |-> difficulty]

----------------------------------------------------------------------------
(* Values of the variables a specification does not use. *)

NoOp == [op |-> "none"]

NoChain == [blocks |-> <<>>, difficulty |-> 0]

NoBlock == Block_fresh(0, <<>>, <<>>, 0)

NoMessage == [kind |-> "none"]

NodeIdle ==
    /\ tetherion = NoChain
    /\ status = "running"
    /\ inbox = NoMessage
    /\ response_queue = <<>>
    /\ published = <<>>
    /\ last = NoOp

MineIdle ==
    /\ blk = NoBlock
    /\ mine_difficulty = 0
    /\ pc = "idle"
    /\ mined = [calls |-> 0, block |-> NoBlock]

PeersIdle ==
    /\ discovered = <<>>
    /\ init_pending = FALSE

NetIdle ==
    /\ nodes = <<>>
    /\ network = <<>>

----------------------------------------------------------------------------
(* Block::new and Block::mine, one pass of the loop at a time. *)

\* Block::new up to its call of mine (block.rs:31-40)
InitMine ==
    /\ \E id \in {0, 1}, previous_hash \in {GENESIS, <<0, 0, 5, 5>>},
          data \in Payloads, now \in Times :
          blk = Block_fresh(id, previous_hash, data, now)
    /\ mine_difficulty \in Difficulties
    /\ pc = "mine"
    /\ mined = [calls |-> 0, block |-> NoBlock]
    /\ NodeIdle
    /\ PeersIdle
    /\ NetIdle

\* Block::mine, entry: the once-only check (block.rs:64-69)
MineEnter ==
    /\ pc = "mine"
    /\ pc' = IF blk.nonce # 0 THEN "panicked" ELSE "loop"
    /\ mined' = [mined EXCEPT !.calls = @ + 1]
    /\ UNCHANGED <<blk, mine_difficulty, node_vars, peer_vars, net_vars>>

\* Block::mine, one pass of the loop (block.rs:71-80)
MinePass ==
    /\ pc = "loop"
    /\ \E debug \in BOOLEAN :
       LET r == mine_pass(blk, mine_difficulty, debug)
       IN  /\ blk' = r.block
           /\ pc' = r.at
           /\ mined' = IF r.at = "done" /\ mined.calls = 1
                       THEN [mined EXCEPT !.block = r.block]
                       ELSE mined
    /\ UNCHANGED <<mine_difficulty, node_vars, peer_vars, net_vars>>

\* A second call of mine on the block the first call returned
\* (block.rs:133, tests::mine_multiple_times)
MineAgain ==
    /\ pc = "done"
    /\ mined.calls = 1
    /\ \E difficulty \in Difficulties : mine_difficulty' = difficulty
    /\ pc' = "mine"
    /\ UNCHANGED <<blk, mined, node_vars, peer_vars, net_vars>>

NextMine == MineEnter \/ MinePass \/ MineAgain

SpecMine == InitMine /\ [][NextMine]_vars

\* mine is a loop without suspension points: once called it keeps running.
SpecMineFair ==
    InitMine /\ [][NextMine]_vars /\ WF_vars(MineEnter) /\ WF_vars(MinePass)

----------------------------------------------------------------------------
(* TetherionBehaviour: fork choice and the event handlers. *)

\* PEER_ID of this node, and the identity of another peer
Me == "peerA"
Other == "peerB"
Peers == {Me, Other}

\* A third peer on the same topics
Third == "peerC"

\* is_better_than with one of its answers changed: the answer `on_longer`
\* when the local chain is the longer of two valid ones, `on_older` when it
\* is the older of two of equal length, `on_both_invalid` when neither chain
\* is valid.
is_better_than_variant(local, remote, debug, on_longer, on_older, on_both_invalid) ==
    LET l == Tetherion_is_valid(local, debug)
        r == Tetherion_is_valid(remote, debug)
        flip(x) == IF x = "true" THEN "false" ELSE "true"
    IN  IF l.kind = "Panic" \/ r.kind = "Panic" THEN "panic"
        ELSE IF l = Ok /\ r = Ok
        THEN IF Len(local.blocks) = Len(remote.blocks)
             THEN IF Len(local.blocks) = 0 THEN "panic"
                  ELSE IF creation_timestamp(local) = creation_timestamp(remote)
                       THEN "true"
                  ELSE IF creation_timestamp(local) < creation_timestamp(remote)
                       THEN on_older ELSE flip(on_older)
             ELSE IF Len(local.blocks) >= Len(remote.blocks)
                  THEN on_longer ELSE flip(on_longer)
        ELSE IF l = Ok THEN "true"
        ELSE IF r = Ok THEN "false"
        ELSE on_both_invalid

\* is_better_than with the length comparison turned round.
is_better_than_ShorterWins(local, remote, debug) ==
    is_better_than_variant(local, remote, debug, "false", "true", "panic")

\* is_better_than with the timestamp comparison turned round.
is_better_than_NewerWins(local, remote, debug) ==
    is_better_than_variant(local, remote, debug, "true", "false", "panic")

\* is_better_than that keeps the local chain when both are invalid.
is_better_than_NoPanic(local, remote, debug) ==
    is_better_than_variant(local, remote, debug, "true", "true", "true")

\* is_better_than that prefers an invalid remote chain to a valid local one.
is_better_than_TrustRemote(local, remote, debug) ==
    LET l == Tetherion_is_valid(local, debug)
        r == Tetherion_is_valid(remote, debug)
    IN  IF l.kind = "Panic" \/ r.kind = "Panic" THEN "panic"
        ELSE IF l = Ok /\ r = Ok
        THEN IF Len(local.blocks) = Len(remote.blocks)
             THEN IF Len(local.blocks) = 0 THEN "panic"
                  ELSE IF creation_timestamp(local) <= creation_timestamp(remote)
                       THEN "true" ELSE "false"
             ELSE IF Len(local.blocks) >= Len(remote.blocks)
                  THEN "true" ELSE "false"
        ELSE IF l = Ok THEN "false"
        ELSE IF r = Ok THEN "false"
        ELSE "panic"

\* is_better_than that keeps the local chain only if it is strictly older
\* than a remote chain of the same length.
is_better_than_StrictlyOlder(local, remote, debug) ==
    LET l == Tetherion_is_valid(local, debug)
        r == Tetherion_is_valid(remote, debug)
    IN  IF l.kind = "Panic" \/ r.kind = "Panic" THEN "panic"
        ELSE IF l = Ok /\ r = Ok
        THEN IF Len(local.blocks) = Len(remote.blocks)
             THEN IF Len(local.blocks) = 0 THEN "panic"
                  ELSE IF creation_timestamp(local) < creation_timestamp(remote)
                       THEN "true" ELSE "false"
             ELSE IF Len(local.blocks) >= Len(remote.blocks)
                  THEN "true" ELSE "false"
        ELSE IF l = Ok THEN "true"
        ELSE IF r = Ok THEN "false"
        ELSE "panic"

\* TetherionBehaviour::is_better_than: "true", "false", or "panic".  Both
\* is_valid calls are made before the match.
is_better_than(local, remote, debug) ==
    LET l == Tetherion_is_valid(local, debug)
        r == Tetherion_is_valid(remote, debug)
    IN  IF l.kind = "Panic" \/ r.kind = "Panic" THEN "panic"
        ELSE IF l = Ok /\ r = Ok
        THEN IF Len(local.blocks) = Len(remote.blocks)
             THEN IF Len(local.blocks) = 0 THEN "panic"
                  ELSE IF creation_timestamp(local) <= creation_timestamp(remote)
                       THEN "true" ELSE "false"
             ELSE IF Len(local.blocks) >= Len(remote.blocks)
                  THEN "true" ELSE "false"
        ELSE IF l = Ok THEN "true"
        ELSE IF r = Ok THEN "false"
        ELSE "panic"

\* on_chain_response without the receiver check.
on_chain_response_AnyReceiver(local, resp, debug) ==
    LET better == is_better_than(local, resp.tetherion, debug)
    IN  IF better = "panic"
        THEN [tetherion |-> local, status |-> "panicked"]
        ELSE IF better = "false"
        THEN [tetherion |-> resp.tetherion, status |-> "running"]
        ELSE [tetherion |-> local, status |-> "running"]

\* inject_event, ChainResponse branch: the chain and the status afterwards
on_chain_response(local, resp, debug) ==
    IF resp.receiver = Me
    THEN LET better == is_better_than(local, resp.tetherion, debug)
         IN  IF better = "panic"
             THEN [tetherion |-> local, status |-> "panicked"]
             ELSE IF better = "false"
             THEN [tetherion |-> resp.tetherion, status |-> "running"]
             ELSE [tetherion |-> local, status |-> "running"]
    ELSE [tetherion |-> local, status |-> "running"]

\* "create b"
CREATE_B == <<12, 25, 14, 10, 26, 14, 21, 11>>

\* str::strip_prefix that also drops the blank after the prefix.
strip_prefix_Trimmed(s, prefix) == SubSeq(s, Len(prefix) + 2, Len(s))

\* str::strip_prefix: the rest of s after the prefix (the caller has
\* checked starts_with)
strip_prefix(s, prefix) == SubSeq(s, Len(prefix) + 1, Len(s))

----------------------------------------------------------------------------
(* The inputs the model draws from. *)

\* A hex string of the digest's length with `zeros` leading zero bytes.
HandHash(zeros) ==
    [i \in 1 .. HEX_SIZE * DigestBytes |-> IF i <= HEX_SIZE * zeros THEN 0 ELSE 5]

\* A hash string that differs from h.
Tampered(h) == IF h = HandHash(1) THEN HandHash(0) ELSE HandHash(1)

HandBlock(id, hash, previous_hash, now) ==
    [id |-> id, hash |-> hash, previous_hash |-> previous_hash,
     timestamp |-> now, nonce |-> 0, data |-> <<>>]

\* Hand-made blocks to follow the block `prev`: rightly linked with more or
\* fewer leading zeros, with a wrong id, with a tampered previous_hash,
\* and with several of these at once.
Followers(prev) ==
    {HandBlock(prev.id + 1, HandHash(z), prev.hash, 1) : z \in {0, 1, DigestBytes}}
    \cup {HandBlock(prev.id + 2, HandHash(DigestBytes), prev.hash, 1),
          HandBlock(prev.id + 1, HandHash(DigestBytes), Tampered(prev.hash), 1),
          HandBlock(prev.id + 2, HandHash(0), Tampered(prev.hash), 1),
          HandBlock(prev.id + 1, HandHash(0), Tampered(prev.hash), 1)}

\* First blocks of chains that arrive in messages: genesis-like ones of
\* different age, and one that is no genesis block.
FirstBlocks ==
    {HandBlock(0, HandHash(DigestBytes), GENESIS, now) : now \in Times}
    \cup {HandBlock(1, HandHash(1), HandHash(0), 1)}

\* The hand-made block that rightly follows `prev`.
GoodBlock(prev) == HandBlock(prev.id + 1, HandHash(DigestBytes), prev.hash, 1)

\* Blocks that follow `prev` with one defect: too few leading zeros (for a
\* difficulty above 0), a wrong id, a tampered previous_hash.
Defects(prev) ==
    {HandBlock(prev.id + 1, HandHash(0), prev.hash, 1),
     HandBlock(prev.id + 2, HandHash(DigestBytes), prev.hash, 1),
     HandBlock(prev.id + 1, HandHash(DigestBytes), Tampered(prev.hash), 1)}

\* bs extended by n rightly linked blocks.
RECURSIVE Grow(_, _)
Grow(bs, n) ==
    IF n = 0 THEN bs ELSE Grow(Append(bs, GoodBlock(bs[Len(bs)])), n - 1)

\* Block sequences of length len: rightly linked throughout, or with one
\* defective block at any place after the first.
BlockSeqs(len) ==
    IF len = 0 THEN {<<>>}
    ELSE UNION {
        {Grow(<<f>>, len - 1)} \cup
        UNION {LET head == Grow(<<f>>, k - 2)
               IN  {Grow(Append(head, x), len - k) : x \in Defects(head[Len(head)])}
               : k \in 2 .. len}
        : f \in FirstBlocks}

\* The difficulty a remote chain states: none, one byte, or more bytes than
\* a digest has.
RemoteDifficulties == {0, 1, DigestBytes + 1}

\* The chains a ChainResponse may carry: any length up to MaxLen (empty
\* too), valid or not, with a difficulty of their own.
RemoteChains ==
    {[blocks |-> bs, difficulty |-> d] :
        bs \in UNION {BlockSeqs(len) : len \in 0 .. MaxLen},
        d \in RemoteDifficulties}

\* The chains without a defective block.
LinkedChains ==
    {[blocks |-> Grow(<<f>>, len - 1), difficulty |-> d] :
        f \in FirstBlocks, len \in 1 .. MaxLen, d \in RemoteDifficulties}

\* The responses on the "chains" topic: any chain for this node, and the
\* chains without a defect for another peer.
ChainResponses ==
    {[tetherion |-> t, receiver |-> Me] : t \in RemoteChains}
    \cup {[tetherion |-> t, receiver |-> Other] : t \in LinkedChains}

\* The floodsub messages that change the chain of a node whose chain is
\* t: any ChainResponse, and a hand-made Block to follow the last block.
Messages(t) ==
    {[kind |-> "ChainResponse", source |-> Other, resp |-> r] : r \in ChainResponses}
    \cup {[kind |-> "Block", source |-> Other, block |-> b]
            : b \in {GoodBlock(t.blocks[Len(t.blocks)])}
                     \cup Defects(t.blocks[Len(t.blocks)])}

\* The chain requests a peer may publish: they name this node or another.
Requests ==
    {[kind |-> "LocalChainRequest", source |-> src, from_peer_id |-> q]
        : src \in {Other, Third}, q \in Peers}

\* The orders in which a HashSet of the peers S may be iterated.
Orders(S) ==
    {v \in [1 .. Cardinality(S) -> S] :
        \A i, j \in 1 .. Cardinality(S) : i # j => v[i] # v[j]}

\* get_peers that counts the node itself among its peers.
get_peers_WithSelf(nodes_seen) ==
    Orders({nodes_seen[i] : i \in 1 .. Len(nodes_seen)} \cup {Me})

\* get_peers: the discovered nodes, collected into a HashSet and from there
\* into a Vec, in whatever order the set iterates
get_peers(nodes_seen) ==
    Orders({nodes_seen[i] : i \in 1 .. Len(nodes_seen)})

\* What is remembered of the local chain as it was before a ChainResponse.
Summary(t) ==
    [len |-> Len(t.blocks),
     timestamp |-> creation_timestamp(t),
     valid |-> Tetherion_is_valid(t, FALSE) = Ok]

----------------------------------------------------------------------------
(* The node. *)

\* Tetherion::new at node start; a node whose genesis block cannot be
\* mined never starts.
InitNode ==
    /\ \E difficulty \in Difficulties, now \in Times, debug \in BOOLEAN :
          /\ Block_genesis(<<>>, difficulty, now, debug).at = "done"
          /\ tetherion = Tetherion_new(<<>>, difficulty, now, debug)
    /\ status = "running"
    /\ inbox = NoMessage
    /\ response_queue = <<>>
    /\ published = <<>>
    /\ last = NoOp
    /\ MineIdle
    /\ discovered = <<>>
    /\ init_pending = TRUE
    /\ NetIdle

\* A direct call of Tetherion::add_block (tetherion.rs:76-88)
AddBlock ==
    /\ status = "running"
    /\ Len(tetherion.blocks) < MaxLen
    /\ \E block \in Followers(tetherion.blocks[Len(tetherion.blocks)]) :
          LET r == add_block(tetherion, block)
          IN  /\ tetherion' = r.tetherion
              /\ last' = [op |-> "add_block", block |-> block, result |-> r.result]
    /\ UNCHANGED <<status, inbox, response_queue, published, mine_vars, peer_vars, net_vars>>

\* The swarm takes a floodsub message for this node off the network; the
\* control loop is serial, so it does so between two other events and hands
\* the message to inject_event before it turns to the next event.
Deliver ==
    /\ status = "running"
    /\ inbox = NoMessage
    /\ \E msg \in Messages(tetherion) :
          /\ msg.kind = "Block" => Len(tetherion.blocks) < MaxLen
          /\ inbox' = msg
    /\ last' = [op |-> "deliver"]
    /\ UNCHANGED <<tetherion, status, response_queue, published,
                   mine_vars, peer_vars, net_vars>>

\* The swarm takes a LocalChainRequest off the network.
DeliverRequest ==
    /\ status = "running"
    /\ inbox = NoMessage
    /\ Len(response_queue) + Len(published) < MaxSent
    /\ \E msg \in Requests : inbox' = msg
    /\ last' = [op |-> "deliver"]
    /\ UNCHANGED <<tetherion, status, response_queue, published,
                   mine_vars, peer_vars, net_vars>>

\* inject_event, ChainResponse branch (p2p.rs:112-119)
HandleChainResponse(msg) ==
    \E debug \in BOOLEAN :
    LET r == on_chain_response(tetherion, msg.resp, debug)
    IN  /\ tetherion' = r.tetherion
        /\ status' = r.status
        /\ last' = [op |-> "response", receiver |-> msg.resp.receiver,
                    outcome |-> IF r.status = "panicked" THEN "panicked"
                                ELSE IF msg.resp.receiver # Me THEN "ignored"
                                ELSE IF r.tetherion = tetherion THEN "kept"
                                ELSE "replaced",
                    before |-> Summary(tetherion),
                    remote_valid |->
                        Tetherion_is_valid(msg.resp.tetherion, FALSE) = Ok,
                    remote_len |-> Len(msg.resp.tetherion.blocks)]
        /\ UNCHANGED <<response_queue, published>>

\* The LocalChainRequest branch with the response addressed to the peer the
\* request names instead of the peer it came from.
HandleLocalChainRequest_ToNamedPeer(msg) ==
    /\ response_queue' =
          IF msg.from_peer_id = Me
          THEN Append(response_queue,
                      [tetherion |-> tetherion, receiver |-> msg.from_peer_id])
          ELSE response_queue
    /\ last' = [op |-> "request", queued |-> msg.from_peer_id = Me]
    /\ UNCHANGED <<tetherion, status, published>>

\* inject_event, LocalChainRequest branch (p2p.rs:120-129)
HandleLocalChainRequest(msg) ==
    /\ response_queue' =
          IF msg.from_peer_id = Me
          THEN Append(response_queue,
                      [tetherion |-> tetherion, receiver |-> msg.source])
          ELSE response_queue
    /\ last' = [op |-> "request", queued |-> msg.from_peer_id = Me]
    /\ UNCHANGED <<tetherion, status, published>>

\* inject_event, Block branch (p2p.rs:130-136): add_block, log an error
HandleBlock(msg) ==
    LET r == add_block(tetherion, msg.block)
    IN  /\ tetherion' = r.tetherion
        /\ last' = [op |-> "block", result |-> r.result]
        /\ UNCHANGED <<status, response_queue, published>>

\* NetworkBehaviourEventProcess<FloodsubEvent>::inject_event (p2p.rs:110-138)
InjectEvent ==
    /\ status = "running"
    /\ inbox # NoMessage
    /\ inbox' = NoMessage
    /\ CASE inbox.kind = "ChainResponse" -> HandleChainResponse(inbox)
         [] inbox.kind = "LocalChainRequest" -> HandleLocalChainRequest(inbox)
         [] inbox.kind = "Block" -> HandleBlock(inbox)
    /\ UNCHANGED <<mine_vars, peer_vars, net_vars>>

\* The LocalChainResponse event publishing the local chain as it is when
\* the response is sent instead of the chain the response was queued with.
SendResponse_CurrentChain ==
    /\ status = "running"
    /\ inbox = NoMessage
    /\ response_queue # <<>>
    /\ response_queue' = Tail(response_queue)
    /\ published' = Append(published,
                           [topic |-> "chains",
                            msg |-> [tetherion |-> tetherion,
                                     receiver |-> Head(response_queue).receiver]])
    /\ last' = [op |-> "send"]
    /\ UNCHANGED <<tetherion, status, inbox, mine_vars, peer_vars, net_vars>>

\* main, EventType::LocalChainResponse (main.rs:181-187): a queued response
\* is published on the "chains" topic
SendResponse ==
    /\ status = "running"
    /\ inbox = NoMessage
    /\ response_queue # <<>>
    /\ response_queue' = Tail(response_queue)
    /\ published' = Append(published,
                           [topic |-> "chains", msg |-> Head(response_queue)])
    /\ last' = [op |-> "send"]
    /\ UNCHANGED <<tetherion, status, inbox, mine_vars, peer_vars, net_vars>>

\* handle_create_block that publishes the block it extended instead of the
\* block it made.
CreateBlock_PublishLatest ==
    /\ status = "running"
    /\ inbox = NoMessage
    /\ Len(tetherion.blocks) < MaxLen
    /\ \E payload \in CommandPayloads, now \in LaterTimes, debug \in BOOLEAN :
          LET cmd == CREATE_B \o payload
              data == strip_prefix(cmd, CREATE_B)
              latest_block == tetherion.blocks[Len(tetherion.blocks)]
              m == Block_new(latest_block.id + 1, latest_block.hash, data,
                             tetherion.difficulty, now, debug)
              r == add_block(tetherion, m.block)
          IN  IF m.at # "done"
              THEN /\ status' = m.at
                   /\ last' = [op |-> "create", cmd |-> cmd,
                               result |-> [kind |-> m.at]]
                   /\ UNCHANGED <<tetherion, published>>
              ELSE /\ tetherion' = r.tetherion
                   /\ published' = IF r.result = Ok
                                   THEN Append(published,
                                               [topic |-> "blocks", msg |-> latest_block])
                                   ELSE published
                   /\ last' = [op |-> "create", cmd |-> cmd, result |-> r.result]
                   /\ UNCHANGED status
    /\ UNCHANGED <<inbox, response_queue, mine_vars, peer_vars, net_vars>>

\* handle_create_block (p2p.rs:183-208) on the line "create b" + payload.
\* Block::new may panic or never return; else the block is added and, if
\* add_block succeeded, published on the "blocks" topic.
CreateBlock ==
    /\ status = "running"
    /\ inbox = NoMessage
    /\ Len(tetherion.blocks) < MaxLen
    /\ \E payload \in CommandPayloads, now \in LaterTimes, debug \in BOOLEAN :
          LET cmd == CREATE_B \o payload
              data == strip_prefix(cmd, CREATE_B)
              latest_block == tetherion.blocks[Len(tetherion.blocks)]
              m == Block_new(latest_block.id + 1, latest_block.hash, data,
                             tetherion.difficulty, now, debug)
              r == add_block(tetherion, m.block)
          IN  IF m.at # "done"
              THEN /\ status' = m.at
                   /\ last' = [op |-> "create", cmd |-> cmd,
                               result |-> [kind |-> m.at]]
                   /\ UNCHANGED <<tetherion, published>>
              ELSE /\ tetherion' = r.tetherion
                   /\ published' = IF r.result = Ok
                                   THEN Append(published,
                                               [topic |-> "blocks", msg |-> m.block])
                                   ELSE published
                   /\ last' = [op |-> "create", cmd |-> cmd, result |-> r.result]
                   /\ UNCHANGED status
    /\ UNCHANGED <<inbox, response_queue, mine_vars, peer_vars, net_vars>>

\* The node without chain requests from its peers.
Next == Deliver \/ InjectEvent \/ CreateBlock

Spec == InitNode /\ [][Next]_vars

\* Tetherion::new followed by add_block calls with arbitrary blocks.
SpecChain == InitNode /\ [][AddBlock]_vars

\* Fork choice on arbitrary pairs of chains: the local chain is any
\* non-empty chain, valid or not, and a ChainResponse is about to be handled.
InitFork ==
    /\ tetherion \in {t \in RemoteChains : Len(t.blocks) >= 1}
    /\ status = "running"
    /\ inbox \in {[kind |-> "ChainResponse", source |-> Other, resp |-> r]
                    : r \in ChainResponses}
    /\ response_queue = <<>>
    /\ published = <<>>
    /\ last = NoOp
    /\ MineIdle
    /\ PeersIdle
    /\ NetIdle

SpecFork == InitFork /\ [][InjectEvent]_vars

\* MdnsEvent::Discovered: mdns learns of a peer.  The list is read by the
\* Init event only, so discoveries after it are left out.
Discovered ==
    /\ status = "running"
    /\ init_pending
    /\ \E q \in {Other, Third} :
          /\ \A i \in 1 .. Len(discovered) : discovered[i] # q
          /\ discovered' = Append(discovered, q)
    /\ last' = [op |-> "discovered"]
    /\ UNCHANGED <<tetherion, status, inbox, response_queue, published,
                   init_pending, mine_vars, net_vars>>

\* main, EventType::Init (main.rs:160-180): the chain has its genesis block
\* since Tetherion::new; if a peer is known, a LocalChainRequest naming the
\* last peer of the list is published on the "chains" topic.
InitEvent ==
    /\ status = "running"
    /\ inbox = NoMessage
    /\ init_pending
    /\ init_pending' = FALSE
    /\ \E peers \in get_peers(discovered) :
          published' =
             IF Len(peers) = 0 THEN published
             ELSE Append(published,
                         [topic |-> "chains",
                          msg |-> [kind |-> "LocalChainRequest",
                                   from_peer_id |-> peers[Len(peers)]]])
    /\ last' = [op |-> "init"]
    /\ UNCHANGED <<tetherion, status, inbox, response_queue, discovered,
                   mine_vars, net_vars>>

\* The node with peer discovery, the Init event, chain requests from its
\* peers and its own blocks, without inbound responses and blocks.
NextSync ==
    \/ Discovered
    \/ InitEvent
    \/ DeliverRequest
    \/ InjectEvent
    \/ SendResponse
    \/ CreateBlock

SpecSync == InitNode /\ [][NextSync]_vars

\* A few of the messages a node whose chain is t may get: the block that
\* rightly follows its last block, ChainResponses for this node with an
\* empty chain or with a rightly linked chain of the oldest genesis block
\* (one block long, or as long as a chain gets) at difficulty 0, and a
\* request for its chain.
NodeMessages(t) ==
    {[kind |-> "Block", source |-> Other,
      block |-> GoodBlock(t.blocks[Len(t.blocks)])]}
    \cup {[kind |-> "ChainResponse", source |-> Other,
           resp |-> [tetherion |-> [blocks |-> bs, difficulty |-> 0],
                     receiver |-> Me]]
            : bs \in {<<>>} \cup
                     {Grow(<<HandBlock(0, HandHash(DigestBytes), GENESIS, 1)>>,
                           len - 1) : len \in {1, MaxLen}}}
    \cup {[kind |-> "LocalChainRequest", source |-> Other, from_peer_id |-> Me]}

\* The swarm takes one of these messages off the network.
DeliverNode ==
    /\ status = "running"
    /\ inbox = NoMessage
    /\ \E msg \in NodeMessages(tetherion) :
          /\ msg.kind = "Block" => Len(tetherion.blocks) < MaxLen
          /\ msg.kind = "LocalChainRequest" =>
                Len(response_queue) + Len(published) < MaxSent
          /\ inbox' = msg
    /\ last' = [op |-> "deliver"]
    /\ UNCHANGED <<tetherion, status, response_queue, published,
                   mine_vars, peer_vars, net_vars>>

\* The control loop of one node after its Init event: messages of every
\* kind from its peers, queued responses and the operator's blocks.
NextNode ==
    \/ DeliverNode
    \/ InjectEvent
    \/ SendResponse
    \/ CreateBlock

SpecNode == InitNode /\ [][NextNode]_vars

\* select! polls its branches in random order: a message taken off the
\* network is handled at once, and a branch that is ready again and again
\* (a queued response) is taken in the end.  Nobody has to send the node a
\* message or type a command.
NodeFairness ==
    /\ WF_vars(InjectEvent)
    /\ SF_vars(SendResponse)

SpecNodeFair == InitNode /\ [][NextNode]_vars /\ NodeFairness

----------------------------------------------------------------------------
(* Two nodes side by side.  Each runs the control loop of main with a chain
   of its own; what one publishes with floodsub reaches the other, in the
   order of publication. *)

Nodes == {Me, Other}

\* The other one of the two nodes.
PeerOf(p) == IF p = Me THEN Other ELSE Me

\* The difficulty the two nodes are built with
NetDifficulties == {0, 1}

\* What the operator of the node p types after "create b": " hello" at
\* one node, nothing at the other
NetPayload(p) == IF p = Me THEN <<21, 22, 14, 23, 23, 24>> ELSE <<>>

\* Tetherion::new at the start of a node with the difficulty d, for the
\* times at which the genesis block can be mined
StartChains(d) ==
    {Tetherion_new(<<>>, d, now, FALSE) :
        now \in {t \in Times : Block_genesis(<<>>, d, t, FALSE).at = "done"}}

\* Nothing is remembered of a chain request yet.
NotAsked == [own |-> 0, peer |-> 0]

\* A node at its start: its chain, its status, the channel behind
\* response_sender, whether its Init event is still to come, and, for the
\* claims, how many blocks it mined, whether it adopted a chain, and how
\* long its chain and the asking peer's chain were when it answered a
\* chain request.
StartNode(t) ==
    [tetherion |-> t, status |-> "running", response_queue |-> <<>>,
     init_pending |-> TRUE, mined |-> 0, adopted |-> FALSE, asked |-> NotAsked]

\* The ChainResponse branch without the negation of is_better_than.
handle_chain_response_Inverted(self, local, resp, debug) ==
    IF resp.receiver = self
    THEN LET better == is_better_than(local, resp.tetherion, debug)
         IN  IF better = "panic"
             THEN [tetherion |-> local, status |-> "panicked"]
             ELSE IF better = "true"
             THEN [tetherion |-> resp.tetherion, status |-> "running"]
             ELSE [tetherion |-> local, status |-> "running"]
    ELSE [tetherion |-> local, status |-> "running"]

\* inject_event, ChainResponse branch (p2p.rs:112-119), for the node whose
\* PEER_ID is self
handle_chain_response(self, local, resp, debug) ==
    IF resp.receiver = self
    THEN LET better == is_better_than(local, resp.tetherion, debug)
         IN  IF better = "panic"
             THEN [tetherion |-> local, status |-> "panicked"]
             ELSE IF better = "false"
             THEN [tetherion |-> resp.tetherion, status |-> "running"]
             ELSE [tetherion |-> local, status |-> "running"]
    ELSE [tetherion |-> local, status |-> "running"]

\* NetworkBehaviourEventProcess<FloodsubEvent>::inject_event (p2p.rs:110-138)
\* for the node n whose PEER_ID is self; peer_len is the length of the
\* sender's chain at this moment, remembered for the claims only.
inject_event(self, n, msg, debug, peer_len) ==
    CASE msg.kind = "ChainResponse" ->
            LET r == handle_chain_response(self, n.tetherion, msg.resp, debug)
            IN  [n EXCEPT !.tetherion = r.tetherion,
                          !.status = r.status,
                          !.adopted = @ \/ r.tetherion # n.tetherion]
      [] msg.kind = "LocalChainRequest" ->
            IF msg.from_peer_id = self
            THEN [n EXCEPT !.response_queue =
                              Append(@, [tetherion |-> n.tetherion,
                                         receiver |-> msg.source]),
                           !.asked = [own |-> Len(n.tetherion.blocks),
                                      peer |-> peer_len]]
            ELSE n
      [] msg.kind = "Block" ->
            [n EXCEPT !.tetherion = add_block(n.tetherion, msg.block).tetherion]

\* floodsub.publish by the node p: the message reaches the other node.
Publish(p, msg) == [network EXCEPT ![PeerOf(p)] = Append(@, msg)]

NetInit ==
    /\ \E d \in NetDifficulties :
          nodes \in [Nodes -> {StartNode(t) : t \in StartChains(d)}]
    /\ network = [p \in Nodes |-> <<>>]
    /\ NodeIdle
    /\ MineIdle
    /\ PeersIdle

\* main, EventType::Init (main.rs:160-180) at the node p, which by then has
\* discovered the other node or has not.
NetInitEvent(p) ==
    /\ nodes[p].status = "running"
    /\ nodes[p].init_pending
    /\ nodes' = [nodes EXCEPT ![p].init_pending = FALSE]
    /\ \E seen \in {<<>>, <<PeerOf(p)>>} :
       \E peers \in get_peers(seen) :
          network' =
             IF Len(peers) = 0 THEN network
             ELSE Publish(p, [kind |-> "LocalChainRequest", source |-> p,
                              from_peer_id |-> peers[Len(peers)]])
    /\ UNCHANGED <<node_vars, mine_vars, peer_vars>>

\* The node p takes the next floodsub message and handles it.
NetInjectEvent(p) ==
    /\ nodes[p].status = "running"
    /\ network[p] # <<>>
    /\ \E debug \in BOOLEAN :
          nodes' = [nodes EXCEPT ![p] =
                      inject_event(p, @, Head(network[p]), debug,
                                   Len(nodes[PeerOf(p)].tetherion.blocks))]
    /\ network' = [network EXCEPT ![p] = Tail(@)]
    /\ UNCHANGED <<node_vars, mine_vars, peer_vars>>

\* main, EventType::LocalChainResponse (main.rs:181-187) at the node p
NetSendResponse(p) ==
    /\ nodes[p].status = "running"
    /\ nodes[p].response_queue # <<>>
    /\ nodes' = [nodes EXCEPT ![p].response_queue = Tail(@)]
    /\ network' = Publish(p, [kind |-> "ChainResponse", source |-> p,
                              resp |-> Head(nodes[p].response_queue)])
    /\ UNCHANGED <<node_vars, mine_vars, peer_vars>>

\* handle_create_block (p2p.rs:183-208) at the node p
NetCreateBlock(p) ==
    /\ nodes[p].status = "running"
    /\ nodes[Me].mined + nodes[Other].mined < MaxMined
    /\ Len(nodes[p].tetherion.blocks) < MaxLen
    /\ \E now \in LaterTimes, debug \in BOOLEAN :
          LET cmd == CREATE_B \o NetPayload(p)
              data == strip_prefix(cmd, CREATE_B)
              t == nodes[p].tetherion
              latest_block == t.blocks[Len(t.blocks)]
              m == Block_new(latest_block.id + 1, latest_block.hash, data,
                             t.difficulty, now, debug)
              r == add_block(t, m.block)
          IN  IF m.at # "done"
              THEN /\ nodes' = [nodes EXCEPT ![p].status = m.at]
                   /\ UNCHANGED network
              ELSE /\ nodes' = [nodes EXCEPT ![p].tetherion = r.tetherion,
                                             ![p].mined = @ + 1]
                   /\ network' =
                         IF r.result = Ok
                         THEN Publish(p, [kind |-> "Block", source |-> p,
                                          block |-> m.block])
                         ELSE network
    /\ UNCHANGED <<node_vars, mine_vars, peer_vars>>

NetNext ==
    \E p \in Nodes :
        \/ NetInitEvent(p)
        \/ NetInjectEvent(p)
        \/ NetSendResponse(p)
        \/ NetCreateBlock(p)

SpecNet == NetInit /\ [][NetNext]_vars

\* Fair delivery: every message under way is handled, every queued response
\* is published, every Init event comes; nobody has to mine.
NetFairness ==
    \A p \in Nodes :
        /\ WF_vars(NetInitEvent(p))
        /\ WF_vars(NetInjectEvent(p))
        /\ WF_vars(NetSendResponse(p))

SpecNetFair == NetInit /\ [][NetNext]_vars /\ NetFairness

----------------------------------------------------------------------------
(* Claims about Block::mine (SpecMine, SpecMineFair). *)

\* The block b with nonce n and the digest of its fields at that nonce.
AtNonce(b, n) ==
    LET c == [b EXCEPT !.nonce = n] IN [c EXCEPT !.hash = Digest(c)]

\* Some nonce of the counter's range gives a digest valid for difficulty d.
Solvable(b, d) == \E n \in 0 .. MaxNonce : Block_is_valid(AtNonce(b, n), d)

\* The first mine call on the block has returned.
FirstMineDone == pc = "done" /\ mined.calls = 1

\* What C7 says of the block on termination.
MinePost ==
    /\ Block_is_valid(blk, mine_difficulty)
    /\ blk.hash = Digest(blk)
    /\ \A n \in 0 .. (blk.nonce - 1) :
          ~Block_is_valid(AtNonce(blk, n), mine_difficulty)
    /\ (mine_difficulty = 0 => blk.nonce = 0)

\* C7 as stated: for every difficulty and payload, mine on a fresh block
\* terminates, and the block then is valid for the difficulty, its hash is
\* the digest of its fields at the final nonce, no smaller nonce gave a
\* valid digest, and for difficulty 0 the nonce is 0.
C7_Original == <>(pc = "done") /\ [](FirstMineDone => MinePost)

\* C7 amended: mine on a fresh block terminates whenever some nonce of the
\* counter's range gives a digest valid for the difficulty (always so for
\* difficulty 0), and on termination the block is as C7 says.
C7_MineTerminates ==
    /\ [](FirstMineDone => MinePost)
    /\ (pc = "mine" /\ mined.calls = 0
          /\ (mine_difficulty = 0 \/ Solvable(blk, mine_difficulty)))
       ~> (pc = "done")

\* C7 witness: a first mine call that needed more than one nonce has returned.
C7_Witness == FirstMineDone /\ blk.nonce > 0 /\ mine_difficulty > 0

\* C8 as stated: a second mine call on a mined block always fails fatally,
\* also when the first call ended at nonce 0, and leaves hash and nonce as
\* the first call left them.
C8_Original ==
    mined.calls = 2 =>
        /\ pc = "panicked"
        /\ blk.hash = mined.block.hash
        /\ blk.nonce = mined.block.nonce

----------------------------------------------------------------------------
(* The words of the claims about chains. *)

\* The string h starts with n '0' characters.
LeadingZeros(h, n) == Len(h) >= n /\ \A i \in 1 .. n : h[i] = 0

LastBlock(t) == t.blocks[Len(t.blocks)]

ErrorKinds == {"InvalidBlockId", "InvalidPreviousHash", "InvalidDifficulty"}

\* For every index i >= 1: ids continue, hashes link, and the block is
\* valid for the chain's difficulty.
Linked(t) ==
    \A i \in 2 .. Len(t.blocks) :
        /\ t.blocks[i].id = t.blocks[i - 1].id + 1
        /\ t.blocks[i].previous_hash = t.blocks[i - 1].hash
        /\ LeadingZeros(t.blocks[i].hash, 2 * t.difficulty)

\* A chain (of at least one block) that is valid, and one that is not.
ValidChain(t) == Len(t.blocks) >= 1 /\ Linked(t)
InvalidChain(t) == Len(t.blocks) >= 1 /\ ~Linked(t)

----------------------------------------------------------------------------
(* Claims about Tetherion::add_block (SpecChain, Spec). *)

\* C1: add_block decides in a fixed order against the current last block:
\* InvalidBlockId if the id does not follow, whatever else is wrong; else
\* InvalidPreviousHash if the previous hash does not link, whatever the
\* hash; else InvalidDifficulty if the hash lacks the 2 * difficulty
\* leading zeros; else it succeeds and the block is appended.
C1_ValidationOrder ==
    [][last'.op = "add_block" =>
        LET b == last'.block
            l == LastBlock(tetherion)
            kind == last'.result.kind
            idOk == b.id = l.id + 1
            linkOk == b.previous_hash = l.hash
            zerosOk == LeadingZeros(b.hash, 2 * tetherion.difficulty)
        IN  /\ ~idOk => kind = "InvalidBlockId"
            /\ idOk /\ ~linkOk => kind = "InvalidPreviousHash"
            /\ idOk /\ linkOk /\ ~zerosOk => kind = "InvalidDifficulty"
            /\ idOk /\ linkOk /\ zerosOk =>
                  /\ kind = "Ok"
                  /\ tetherion'.blocks = Append(tetherion.blocks, b)]_vars

\* C1 witness: add_block has answered InvalidBlockId for a block whose
\* previous hash and whose leading zeros are wrong as well.
C1_Witness ==
    /\ last.op = "add_block"
    /\ last.result.kind = "InvalidBlockId"
    /\ last.block.previous_hash # LastBlock(tetherion).hash
    /\ ~LeadingZeros(last.block.hash, 2 * tetherion.difficulty)

\* C2: whenever add_block returns an error, from the new-Block handler or
\* from the create-block command, the chain (blocks and difficulty) is
\* what it was before the call.
C2_ErrorLeavesChain ==
    [][(last'.op \in {"block", "create"} /\ last'.result.kind \in ErrorKinds)
          => tetherion' = tetherion]_vars

\* C2 witness: the handler has had a block refused by a chain of two or
\* more blocks.
C2_Witness ==
    /\ last.op = "block"
    /\ last.result.kind \in ErrorKinds
    /\ Len(tetherion.blocks) >= 2

\* C3: a chain made by Tetherion::new and any add_block calls is valid:
\* ids continue, hashes link and every block after the first is valid for
\* the difficulty; is_valid() returns Ok.
C3_ChainValid ==
    /\ Linked(tetherion)
    /\ \A debug \in BOOLEAN : Tetherion_is_valid(tetherion, debug).kind = "Ok"

\* C3 witness: add_block has succeeded on a chain that then has three
\* blocks or more.
C3_Witness ==
    /\ last.op = "add_block"
    /\ last.result.kind = "Ok"
    /\ Len(tetherion.blocks) >= 3

----------------------------------------------------------------------------
(* Claims about the fork choice (SpecFork). *)

\* The node is about to handle a ChainResponse addressed to it.
ForkStep ==
    /\ inbox.kind = "ChainResponse"
    /\ inbox.resp.receiver = Me
    /\ inbox' = NoMessage

\* C4: of two valid chains of different lengths the longer one is
\* selected, whichever of them is the local one.
C4_LongerWins ==
    [][(/\ ForkStep
        /\ ValidChain(tetherion)
        /\ ValidChain(inbox.resp.tetherion)
        /\ Len(tetherion.blocks) # Len(inbox.resp.tetherion.blocks))
       => tetherion' =
            IF Len(tetherion.blocks) > Len(inbox.resp.tetherion.blocks)
            THEN tetherion ELSE inbox.resp.tetherion]_vars

\* C4 witness: a node with a valid chain has taken a longer valid one.
C4_Witness ==
    /\ last.op = "response"
    /\ last.outcome = "replaced"
    /\ last.before.valid
    /\ last.before.len < Len(tetherion.blocks)
    /\ ValidChain(tetherion)

\* C5: of two valid chains of equal length and different genesis
\* timestamps the one with the smaller timestamp is selected, whichever of
\* them is the local one.
C5_OlderWins ==
    [][(/\ ForkStep
        /\ ValidChain(tetherion)
        /\ ValidChain(inbox.resp.tetherion)
        /\ Len(tetherion.blocks) = Len(inbox.resp.tetherion.blocks)
        /\ tetherion.blocks[1].timestamp # inbox.resp.tetherion.blocks[1].timestamp)
       => tetherion' =
            IF tetherion.blocks[1].timestamp < inbox.resp.tetherion.blocks[1].timestamp
            THEN tetherion ELSE inbox.resp.tetherion]_vars

\* C5 witness: a node with a valid chain has taken a valid chain of the
\* same length and an older genesis block.
C5_Witness ==
    /\ last.op = "response"
    /\ last.outcome = "replaced"
    /\ last.before.valid
    /\ last.before.len = Len(tetherion.blocks)
    /\ tetherion.blocks[1].timestamp < last.before.timestamp
    /\ ValidChain(tetherion)

\* C6: when exactly one of the two chains is valid it is selected, whatever
\* the lengths and timestamps; when both are invalid the fork choice fails
\* fatally and the local chain is not replaced.
C6_ValidWins ==
    [][ForkStep =>
        /\ (ValidChain(tetherion) /\ InvalidChain(inbox.resp.tetherion))
              => tetherion' = tetherion /\ status' = "running"
        /\ (InvalidChain(tetherion) /\ ValidChain(inbox.resp.tetherion))
              => tetherion' = inbox.resp.tetherion /\ status' = "running"
        /\ (InvalidChain(tetherion) /\ InvalidChain(inbox.resp.tetherion))
              => tetherion' = tetherion /\ status' = "panicked"]_vars

\* C6 witness: an invalid local chain has been replaced by a shorter valid
\* one.
C6_Witness ==
    /\ last.op = "response"
    /\ last.outcome = "replaced"
    /\ ~last.before.valid
    /\ last.before.len > Len(tetherion.blocks)
    /\ ValidChain(tetherion)

\* Both chains invalid: the handler has panicked.
C6_WitnessFatal ==
    /\ last.op = "response"
    /\ last.outcome = "panicked"
    /\ ~last.before.valid
    /\ status = "panicked"

----------------------------------------------------------------------------
(* Claims about the node (Spec). *)

\* C9 as stated: every block of the local chain carries the digest of its
\* own fields, blocks from new-Block messages and adopted chains included.
C9_Original ==
    \A i \in 1 .. Len(tetherion.blocks) :
        tetherion.blocks[i].hash = Digest(tetherion.blocks[i])

\* C9 amended: the blocks the node mines itself (the genesis block of
\* Tetherion::new, and the block of each create-block command) carry the
\* digest of their own fields when they enter the chain.
C9_MinedBlocksHashed ==
    /\ tetherion.blocks[1].hash = Digest(tetherion.blocks[1])
    /\ [][(last'.op = "create" /\ last'.result.kind = "Ok")
            => LastBlock(tetherion').hash = Digest(LastBlock(tetherion'))]_vars

\* C9 witness: the create-block command has appended a block to a chain
\* that holds a block from a message whose hash is not its digest.
C9_Witness ==
    /\ last.op = "create"
    /\ last.result.kind = "Ok"
    /\ \E i \in 1 .. Len(tetherion.blocks) :
          tetherion.blocks[i].hash # Digest(tetherion.blocks[i])

\* The winner of the fork choice between a valid local chain and a remote
\* chain, as the design's table has it (equal in every respect: local).
Winner(local, remote) ==
    IF ~Linked(remote) THEN local
    ELSE IF Len(remote.blocks) > Len(local.blocks) THEN remote
    ELSE IF Len(remote.blocks) < Len(local.blocks) THEN local
    ELSE IF remote.blocks[1].timestamp < local.blocks[1].timestamp THEN remote
    ELSE local

\* C10: a ChainResponse for this node leaves it with the fork-choice winner
\* between its chain and the response's chain, the whole chain object; a
\* ChainResponse for another identity changes nothing, queues nothing and
\* publishes nothing.
C10_ResponseHandled ==
    [][(inbox.kind = "ChainResponse" /\ inbox' = NoMessage) =>
        IF inbox.resp.receiver = Me
        THEN tetherion' = Winner(tetherion, inbox.resp.tetherion)
        ELSE /\ tetherion' = tetherion
             /\ response_queue' = response_queue
             /\ published' = published]_vars

\* C10 witness: a ChainResponse for this node has replaced its chain.
C10_Witness ==
    /\ last.op = "response"
    /\ last.receiver = Me
    /\ last.outcome = "replaced"

\* Another case of C10: a response for another peer has been ignored.
C10_WitnessIgnored ==
    /\ last.op = "response"
    /\ last.receiver = Other
    /\ last.outcome = "ignored"

----------------------------------------------------------------------------
(* Claims about chain requests and the Init event (SpecSync). *)

\* A LocalChainRequest is being handled in this step.
RequestStep == inbox.kind = "LocalChainRequest" /\ inbox' = NoMessage

\* C11: handling a LocalChainRequest queues a ChainResponse if and only if
\* from_peer_id is this node's identity; then exactly one response is
\* queued, its receiver is the peer the request came from and its chain is
\* the local chain of that moment; the local chain is unchanged either way.
C11_RequestAnswered ==
    [][RequestStep =>
        /\ tetherion' = tetherion
        /\ response_queue' =
              IF inbox.from_peer_id = Me
              THEN Append(response_queue,
                          [tetherion |-> tetherion, receiver |-> inbox.source])
              ELSE response_queue]_vars

\* C11 witness: a request naming this node was answered with a chain of
\* more than one block, for the third peer.
C11_Witness ==
    /\ last = [op |-> "request", queued |-> TRUE]
    /\ response_queue # <<>>
    /\ response_queue[Len(response_queue)].receiver = Third
    /\ Len(response_queue[Len(response_queue)].tetherion.blocks) > 1

\* C11 witness: a request naming another peer was handled.
C11_WitnessOther ==
    /\ last = [op |-> "request", queued |-> FALSE]
    /\ response_queue = <<>>

----------------------------------------------------------------------------
(* Claims about the create-block command (Spec, SpecSync). *)

\* What C12 says of the chain after the command: one block more, the
\* earlier blocks unchanged, the new block numbered and linked after the
\* former last block, its data the rest of the line after "create b", its
\* hash valid for the chain's difficulty.
CreatePost ==
    LET n == Len(tetherion.blocks)
        L == tetherion.blocks[n]
        b == tetherion'.blocks[n + 1]
    IN  /\ Len(tetherion'.blocks) = n + 1
        /\ SubSeq(tetherion'.blocks, 1, n) = tetherion.blocks
        /\ tetherion'.difficulty = tetherion.difficulty
        /\ b.id = L.id + 1
        /\ b.previous_hash = L.hash
        /\ CREATE_B \o b.data = last'.cmd
        /\ Block_is_valid(b, tetherion.difficulty)

C13_PublishAfterAdd ==
    [][/\ last'.op = "create" =>
           IF last'.result = Ok
           THEN published' =
                   Append(published,
                          [topic |-> "blocks", msg |-> LastBlock(tetherion')])
           ELSE published' = published
       /\ last'.op # "create" =>
           \/ published' = published
           \/ /\ Len(published') = Len(published) + 1
              /\ published'[Len(published')].topic # "blocks"]_vars

\* C13 witness: a successful command has published its block.
C13_Witness ==
    /\ last.op = "create"
    /\ last.result = Ok
    /\ published # <<>>
    /\ published[Len(published)] =
          [topic |-> "blocks", msg |-> LastBlock(tetherion)]
    /\ Len(tetherion.blocks) > 1

----------------------------------------------------------------------------
(* Claims about how the local chain changes (Spec). *)

\* The chain after the step is the chain before it with one block appended
\* that passed the three checks against the former last block.
AppendedOne ==
    LET n == Len(tetherion.blocks)
        L == tetherion.blocks[n]
        b == tetherion'.blocks[n + 1]
    IN  /\ tetherion'.difficulty = tetherion.difficulty
        /\ Len(tetherion'.blocks) = n + 1
        /\ SubSeq(tetherion'.blocks, 1, n) = tetherion.blocks
        /\ b.id = L.id + 1
        /\ b.previous_hash = L.hash
        /\ LeadingZeros(b.hash, 2 * tetherion.difficulty)

\* The chain after the step is the chain of the ChainResponse for this
\* node that is being handled, and the fork choice selected it.
ReplacedWhole ==
    /\ ForkStep
    /\ tetherion' = inbox.resp.tetherion
    /\ Winner(tetherion, inbox.resp.tetherion) = inbox.resp.tetherion

\* C14: every step leaves the local chain unchanged, or appends exactly one
\* block that passed the three add_block checks, or replaces the whole
\* chain by the chain of a ChainResponse for this node that the fork choice
\* selected.
C14_ThreeWays ==
    [][tetherion' = tetherion \/ AppendedOne \/ ReplacedWhole]_vars

\* C14 witness: the chain was replaced by one that arrived in a
\* ChainResponse, and a block from a message was then appended to it.
C14_Witness ==
    /\ tetherion.blocks[1].id = 1
    /\ Len(tetherion.blocks) >= 2
    /\ last.op = "block"
    /\ last.result = Ok

\* C15 as stated: the difficulty of the local chain is in every reachable
\* state what it was when the chain was created at node start; no step
\* changes it, whatever difficulty an inbound ChainResponse's chain states.
C15_Original == [][tetherion'.difficulty = tetherion.difficulty]_vars

\* C16 as stated: in every reachable state the first block of the local
\* chain is a genesis block: id 0, previous_hash "genesis", and a hash
\* valid for the chain's difficulty, also after a chain was adopted from a
\* ChainResponse.
C16_Original ==
    /\ Len(tetherion.blocks) >= 1
    /\ tetherion.blocks[1].id = 0
    /\ tetherion.blocks[1].previous_hash = GENESIS
    /\ LeadingZeros(tetherion.blocks[1].hash, 2 * tetherion.difficulty)

\* C20: in every reachable state of a running node the local chain is not
\* empty and is_valid() is Ok for it, whatever ChainResponse and Block
\* messages came in; so when a ChainResponse is handled the local chain is
\* valid and the fork choice cannot come to its both-invalid branch.
C20_LocalAlwaysValid ==
    /\ ValidChain(tetherion)
    /\ \A debug \in BOOLEAN : Tetherion_is_valid(tetherion, debug) = Ok
    /\ last.op = "response" => last.before.valid

\* C20 witness: a ChainResponse for this node with an invalid chain has
\* been handled by a node that holds more than its genesis block.
C20_Witness ==
    /\ last.op = "response"
    /\ last.receiver = Me
    /\ ~last.remote_valid
    /\ last.outcome = "kept"
    /\ status = "running"
    /\ Len(tetherion.blocks) >= 2

----------------------------------------------------------------------------
(* The Init event (SpecSync). *)

\* The Init event is being handled in this step.
InitStep == init_pending /\ ~init_pending'

\* The peers known to the node.
Known == {discovered[i] : i \in 1 .. Len(discovered)}

\* The LocalChainRequest for the peer q, as published on the "chains" topic.
RequestTo(q) ==
    [topic |-> "chains",
     msg |-> [kind |-> "LocalChainRequest", from_peer_id |-> q]]

\* The local chain starts with the genesis block of Tetherion::new.
HasGenesis ==
    /\ Len(tetherion.blocks) >= 1
    /\ tetherion.blocks[1].id = 0
    /\ tetherion.blocks[1].previous_hash = GENESIS

C19_WitnessAlone ==
    /\ last.op = "init"
    /\ discovered = <<>>
    /\ published = <<>>

----------------------------------------------------------------------------
(* Claims about two nodes side by side (SpecNet, SpecNetFair). *)

\* Both nodes hold the same chain, block for block.
Same == nodes[Me].tetherion = nodes[Other].tetherion

\* No message is under way or queued and no Init event is to come.
Quiet ==
    \A p \in Nodes :
        /\ network[p] = <<>>
        /\ nodes[p].response_queue = <<>>
        /\ ~nodes[p].init_pending

\* Both nodes run, each has mined, each has answered the chain request of
\* the other node's Init, all messages have been handled, and the chains
\* differ although they have the same length and the same genesis
\* timestamp.
Diverged ==
    /\ Quiet
    /\ \A p \in Nodes :
          /\ nodes[p].status = "running"
          /\ nodes[p].mined >= 1
          /\ nodes[p].asked # NotAsked
    /\ ~Same
    /\ Len(nodes[Me].tetherion.blocks) = Len(nodes[Other].tetherion.blocks)
    /\ creation_timestamp(nodes[Me].tetherion)
          = creation_timestamp(nodes[Other].tetherion)

\* C17 as stated, in the case it names: when both nodes mined so that their
\* chains diverged, with equal length and the same genesis timestamp and
\* after the Init chain requests were completed, then under fair delivery
\* of all messages both nodes eventually hold the same chain.
C17_Original == Diverged ~> Same

\* The node p handles a ChainResponse addressed to it in this step.
HandlesResponse(p) ==
    /\ nodes[p].status = "running"
    /\ network[p] # <<>>
    /\ Head(network[p]).kind = "ChainResponse"
    /\ Head(network[p]).resp.receiver = p
    /\ network'[p] = Tail(network[p])

\* C18 as stated: node A, holding only its genesis block, handled the
\* LocalChainRequest{from_peer_id: A} of peer B while B held a longer
\* chain; once the resulting ChainResponse has been processed, A's chain
\* equals B's chain block for block.
C18_Original ==
    [][\A b \in Nodes :
          LET a == PeerOf(b)
          IN  (HandlesResponse(b) /\ nodes[a].asked.own = 1
                                  /\ nodes[a].asked.peer > 1)
                 => nodes'[a].tetherion = nodes'[b].tetherion]_vars

\* C18 amended: the chain travels the other way.  When node B, holding only
\* its genesis block, processes the ChainResponse that node A queued for
\* B's LocalChainRequest{from_peer_id: A}, and the chain in it is longer,
\* then B's chain afterwards equals that chain -- the chain A held when it
\* handled the request -- block for block; A's chain is not changed.
C18_RequesterSyncs ==
    [][\A b \in Nodes :
          LET a == PeerOf(b)
              resp == Head(network[b]).resp
          IN  (HandlesResponse(b) /\ Len(nodes[b].tetherion.blocks) = 1
                                  /\ Len(resp.tetherion.blocks) > 1)
                 => /\ nodes'[b].tetherion = resp.tetherion
                    /\ nodes'[a].tetherion = nodes[a].tetherion]_vars

\* C18 witness: the other node, which never mined, has adopted the longer
\* chain with which this node answered its chain request, and both hold
\* the same chain now.
C18_Witness ==
    /\ nodes # <<>>
    /\ nodes[Other].adopted
    /\ nodes[Other].mined = 0
    /\ nodes[Me].asked.own > 1
    /\ nodes[Me].asked.peer = 1
    /\ Len(nodes[Other].tetherion.blocks) > 1
    /\ Same

----------------------------------------------------------------------------
(* The length and the age of the local chain over the node's events. *)

\* C21: in every step of the node the local chain has at least one block
\* and does not get shorter, whatever chain a ChainResponse carries (an
\* empty or a shorter one too); and a step that changes the chain without
\* changing its length leaves it with a strictly older genesis timestamp.
C21_LengthGrows ==
    [][/\ Len(tetherion.blocks) >= 1
       /\ Len(tetherion'.blocks) >= Len(tetherion.blocks)
       /\ (tetherion' # tetherion
            /\ Len(tetherion'.blocks) = Len(tetherion.blocks))
           => creation_timestamp(tetherion') < creation_timestamp(tetherion)]_vars

\* A ChainResponse has replaced the local chain by one of the same length,
\* and the chain is older than it was.
C21_Witness ==
    /\ last.op = "response"
    /\ last.outcome = "replaced"
    /\ last.before.len = Len(tetherion.blocks)
    /\ creation_timestamp(tetherion) < last.before.timestamp

\* A ChainResponse for this node carried an empty chain, and the local
\* chain was kept.
C21_WitnessEmpty ==
    /\ last.op = "response"
    /\ last.receiver = Me
    /\ last.remote_len = 0
    /\ last.outcome = "kept"

\* A ChainResponse for this node carried a valid chain shorter than the
\* local one, and the local chain was kept.
C21_WitnessShorter ==
    /\ last.op = "response"
    /\ last.receiver = Me
    /\ last.remote_valid
    /\ 0 < last.remote_len
    /\ last.remote_len < last.before.len
    /\ last.outcome = "kept"
    /\ Len(tetherion.blocks) = last.before.len

----------------------------------------------------------------------------
(* The response channel (SpecNodeFair). *)

\* A message on the "chains" topic that is a ChainResponse.
IsResponse(e) == e.topic = "chains" /\ "receiver" \in DOMAIN e.msg

\* The ChainResponses published so far, in the order of publishing.
Sent ==
    LET log == SelectSeq(published, IsResponse)
    IN  [i \in 1 .. Len(log) |-> log[i].msg]

\* The responses queued so far, in the order of queuing: those published,
\* then those still in the channel.
Channel == Sent \o response_queue

\* In every step the published responses followed by the queued ones are
\* what they were, or have one more response at the end that carries the
\* local chain as it is when the request is handled; and a response is
\* published only by taking the head of the queue.  So every response is
\* published at most once, in the order queued, with the chain it was
\* queued with, whatever happens to the local chain in between.
ChannelStep ==
    /\ \/ /\ Channel' = Channel
          /\ \/ /\ response_queue' = response_queue
                /\ Sent' = Sent
             \/ /\ response_queue # <<>>
                /\ response_queue' = Tail(response_queue)
                /\ published' =
                      Append(published,
                             [topic |-> "chains", msg |-> Head(response_queue)])
       \/ /\ Sent' = Sent
          /\ \E receiver \in {Other, Third} :
                response_queue' =
                   Append(response_queue,
                          [tetherion |-> tetherion, receiver |-> receiver])
          /\ tetherion' = tetherion

C22_WitnessReplaced ==
    /\ Len(Sent) >= 1
    /\ last.op = "send"
    /\ LET r == Sent[Len(Sent)].tetherion
       IN  /\ Len(r.blocks) = Len(tetherion.blocks)
           /\ r # tetherion

============================================================================
